---- MODULE Spec2Model ----
(***************************************************************************)
(* Model of cmd/mps-control-daemon/mps/manager.go: the MPS daemon manager. *)
(*                                                                         *)
(* New picks between the real manager and the null manager from the        *)
(* configured sharing strategy; manager.Daemons walks the resource         *)
(* managers of the node and builds one Daemon per resource that passes the *)
(* filters; nullManager.Daemons returns nothing.                           *)
(*                                                                         *)
(* A slice is a sequence, the nil slice is <<>>, an error is a string and  *)
(* the nil error is "nil".  A *Daemon holds a pointer to its resource      *)
(* manager: the pointer is the position of that resource manager in the    *)
(* slice returned by rm.NewNVMLResourceManagers.                           *)
(***************************************************************************)
EXTENDS Integers, Sequences, FiniteSets

VARIABLES
    strategy,          \* m.config.Sharing.SharingStrategy(), the configured value
    mgr,               \* the Manager New returned: "none" before New
    resourceManagers,  \* what rm.NewNVMLResourceManagers yields when it succeeds
    ret,               \* what the last mgr.Daemons() call returned and observed
    prev,              \* what the mgr.Daemons() call before that one returned
    out                \* what the last NewDaemons() call returned

vars == <<strategy, mgr, resourceManagers, ret, prev, out>>

----------------------------------------------------------------------------
(* Bounds of the model *)

\* SpecEngine: resource managers per input, devices over all of them
MaxGroups == 2
MaxDevices == 2
\* Spec: the same two bounds
LifeGroups == 2
LifeDevices == 1

----------------------------------------------------------------------------
(* Collaborators outside manager.go *)

SharingStrategyMPS == "mps"
SharingStrategyTimeSlicing == "time-slicing"
SharingStrategyNone == "none"
Strategies == {SharingStrategyNone, SharingStrategyTimeSlicing, SharingStrategyMPS}

ContainerRoot == "/mps"

NilError == "nil"
SourceError == "failed to construct resource managers"
InvalidMPSConfiguration == "invalid MPS configuration"

\* a device: MIG membership, "::"-annotated ID, declared replicas
ReplicaCounts == {0 - 1, 0, 1}
Device == [mig : BOOLEAN, annotated : BOOLEAN, replicas : ReplicaCounts]

Devices(rm) == rm

IsMigDevice(d) == d.mig

\* rm.AnnotatedIDs(ids).AnyHasAnnotations()
AnyHasAnnotations(devices) == \E i \in 1..Len(devices) : devices[i].annotated

\* (*mpsDevice).assertReplicas
assertReplicas(d) == IF d.replicas > 0 THEN NilError ELSE "invalid number of replicas"

NewDaemon(rm, root) == [rm |-> rm, root |-> root]

----------------------------------------------------------------------------
(* manager.go *)

\* func New: the manager it returns and its error
New(s) ==
    IF s # SharingStrategyMPS
        THEN [mgr |-> "nullManager", err |-> NilError]
        ELSE [mgr |-> "manager", err |-> NilError]

\* mutant: the list of daemons outlives the call
daemonsVarStale == ret.daemons

\* var daemons []*Daemon
daemonsVar == <<>>

\* mutant: a resource with a single device counts as having none
NoDevicesOffByOne(rm) == Len(Devices(rm)) <= 1

\* len(resourceManager.Devices()) == 0
NoDevices(rm) == Len(Devices(rm)) = 0

\* mutant: the sharing check is dropped
NotSharedNever(rm) == FALSE

\* !rm.AnnotatedIDs(resourceManager.Devices().GetIDs()).AnyHasAnnotations()
NotShared(rm) == ~AnyHasAnnotations(Devices(rm))

\* mutant: a MIG device is validated like any other
RECURSIVE checkDevicesNoMig(_, _)
checkDevicesNoMig(devices, i) ==
    IF i > Len(devices) THEN NilError
    ELSE IF assertReplicas(devices[i]) # NilError THEN InvalidMPSConfiguration
    ELSE checkDevicesNoMig(devices, i + 1)

\* the loop over resourceManager.Devices(): the continue of a MIG device moves
\* on to the next device of the same resource manager
RECURSIVE checkDevices(_, _)
checkDevices(devices, i) ==
    IF i > Len(devices) THEN NilError
    ELSE IF IsMigDevice(devices[i]) THEN checkDevices(devices, i + 1)
    ELSE IF assertReplicas(devices[i]) # NilError THEN InvalidMPSConfiguration
    ELSE checkDevices(devices, i + 1)

\* mutant: the new daemon goes to the front
prependDaemon(daemons, daemon) == <<daemon>> \o daemons

\* daemons = append(daemons, daemon)
appendDaemon(daemons, daemon) == Append(daemons, daemon)

\* mutant: on an invalid resource the daemons built so far are returned with the error
RECURSIVE daemonsLoopSkipInvalid(_, _, _)
daemonsLoopSkipInvalid(rms, i, daemons) ==
    IF i > Len(rms) THEN [daemons |-> daemons, err |-> NilError]
    ELSE IF NoDevices(rms[i]) THEN daemonsLoopSkipInvalid(rms, i + 1, daemons)
    ELSE IF NotShared(rms[i]) THEN daemonsLoopSkipInvalid(rms, i + 1, daemons)
    ELSE IF checkDevices(Devices(rms[i]), 1) # NilError
        THEN [daemons |-> daemons, err |-> InvalidMPSConfiguration]
    ELSE daemonsLoopSkipInvalid(rms, i + 1,
                                appendDaemon(daemons, NewDaemon(i, ContainerRoot)))

\* the loop over resourceManagers
RECURSIVE daemonsLoop(_, _, _)
daemonsLoop(rms, i, daemons) ==
    IF i > Len(rms) THEN [daemons |-> daemons, err |-> NilError]
    ELSE IF NoDevices(rms[i]) THEN daemonsLoop(rms, i + 1, daemons)
    ELSE IF NotShared(rms[i]) THEN daemonsLoop(rms, i + 1, daemons)
    ELSE IF checkDevices(Devices(rms[i]), 1) # NilError
        THEN [daemons |-> <<>>, err |-> InvalidMPSConfiguration]
    ELSE daemonsLoop(rms, i + 1, appendDaemon(daemons, NewDaemon(i, ContainerRoot)))

\* func (m *manager) Daemons(); src is what the resource manager source did
managerDaemons(rms, sourceFails) ==
    IF sourceFails
        THEN [daemons |-> <<>>, err |-> SourceError, src |-> "failed"]
        ELSE [daemons |-> daemonsLoop(rms, 1, daemonsVar).daemons,
              err |-> daemonsLoop(rms, 1, daemonsVar).err,
              src |-> "ok"]

\* mutant: the null manager runs the real pass
nullManagerDaemonsReal(rms, sourceFails) == managerDaemons(rms, sourceFails)

\* func (m *nullManager) Daemons()
nullManagerDaemons(rms, sourceFails) ==
    [daemons |-> <<>>, err |-> NilError, src |-> "unread"]

\* mutant: the strategy is looked at again on every call
DaemonsByStrategy(m, rms, sourceFails) ==
    IF strategy = SharingStrategyMPS
        THEN managerDaemons(rms, sourceFails)
        ELSE nullManagerDaemons(rms, sourceFails)

\* Manager.Daemons(): dispatch on the dynamic type of the manager
Daemons(m, rms, sourceFails) ==
    IF m = "manager"
        THEN managerDaemons(rms, sourceFails)
        ELSE nullManagerDaemons(rms, sourceFails)

\* func NewDaemons
NewDaemons(s, rms, sourceFails) ==
    IF New(s).err # NilError
        THEN [daemons |-> <<>>, err |-> "failed to create MPS manager", src |-> "unread"]
        ELSE Daemons(New(s).mgr, rms, sourceFails)

----------------------------------------------------------------------------
(* Inputs *)

\* the ways to cut n devices into at most maxGroups resource managers
RECURSIVE Sum(_, _)
Sum(sizes, i) == IF i > Len(sizes) THEN 0 ELSE sizes[i] + Sum(sizes, i + 1)

Shapes(maxGroups, n) ==
    { sizes \in UNION { [1..k -> 0..n] : k \in 0..maxGroups } : Sum(sizes, 1) = n }

\* the resource managers holding the devices of flat, sizes[i] of them in the i-th
Offset(sizes, i) == Sum(SubSeq(sizes, 1, i - 1), 1)

Split(flat, sizes) ==
    [i \in 1..Len(sizes) |->
        [j \in 1..sizes[i] |-> flat[Offset(sizes, i) + j]]]

\* resourceManagers is any sequence of at most maxGroups resource managers that
\* hold at most maxDevices devices together
InputIs(maxGroups, maxDevices) ==
    \E n \in 0..maxDevices :
        \E flat \in [1..n -> Device] :
            \E sizes \in Shapes(maxGroups, n) :
                resourceManagers = Split(flat, sizes)

NoCall == [daemons |-> <<>>, err |-> NilError, src |-> "nocall", strategy |-> SharingStrategyNone]

Returned(r) == [daemons |-> r.daemons, err |-> r.err, src |-> r.src]

Observed(r, s) == [daemons |-> r.daemons, err |-> r.err, src |-> r.src, strategy |-> s]

----------------------------------------------------------------------------
(* Actions *)

\* the operator edits the configuration
SetStrategy ==
    /\ \E s \in Strategies : s # strategy /\ strategy' = s
    /\ UNCHANGED <<mgr, resourceManagers, ret, prev, out>>

CallNew ==
    /\ mgr = "none"
    /\ mgr' = New(strategy).mgr
    /\ UNCHANGED <<strategy, resourceManagers, ret, prev, out>>

CallDaemons ==
    /\ mgr # "none"
    /\ \E sourceFails \in BOOLEAN :
          ret' = Observed(Daemons(mgr, resourceManagers, sourceFails), strategy)
    /\ prev' = Returned(ret)
    /\ UNCHANGED <<strategy, mgr, resourceManagers, out>>

CallNewDaemons ==
    /\ \E sourceFails \in BOOLEAN :
          out' = Observed(NewDaemons(strategy, resourceManagers, sourceFails), strategy)
    /\ UNCHANGED <<strategy, mgr, resourceManagers, ret, prev>>

\* lifecycle: configuration, construction, calls
Init ==
    /\ strategy \in Strategies
    /\ mgr = "none"
    /\ InputIs(LifeGroups, LifeDevices)
    /\ ret = NoCall
    /\ prev = Returned(NoCall)
    /\ out = NoCall

Next == SetStrategy \/ CallNew \/ CallDaemons \/ CallNewDaemons

Spec == Init /\ [][Next]_vars

\* engine: a manager built under the MPS strategy, called on any input
InitEngine ==
    /\ strategy = SharingStrategyMPS
    /\ mgr = New(strategy).mgr
    /\ InputIs(MaxGroups, MaxDevices)
    /\ ret = NoCall
    /\ prev = Returned(NoCall)
    /\ out = NoCall

NextEngine == CallDaemons

SpecEngine == InitEngine /\ [][NextEngine]_vars

----------------------------------------------------------------------------
(* Vocabulary of the properties *)

Nil == [daemons |-> <<>>, err |-> NilError, src |-> "unread"]

GroupIndex == 1..Len(resourceManagers)

HasMig(rm) == \E j \in 1..Len(rm) : IsMigDevice(rm[j])

Invalid(d) == assertReplicas(d) # NilError

\* rm holds a non-MIG device of invalid replicas
HasInvalid(rm) == \E j \in 1..Len(rm) : ~IsMigDevice(rm[j]) /\ Invalid(rm[j])

\* rm holds a sharing-annotated, non-MIG device of invalid replicas
HasInvalidShared(rm) ==
    \E j \in 1..Len(rm) : rm[j].annotated /\ ~IsMigDevice(rm[j]) /\ Invalid(rm[j])

Excluded(rm) == Len(rm) = 0 \/ ~AnyHasAnnotations(rm) \/ HasMig(rm)

Qualifies(rm) ==
    /\ Len(rm) > 0
    /\ AnyHasAnnotations(rm)
    /\ ~HasMig(rm)
    /\ \A j \in 1..Len(rm) : ~Invalid(rm[j])

\* the positions of ds that hold a daemon of resource manager i
DaemonsOf(ds, i) == { k \in 1..Len(ds) : ds[k].rm = i }

RealCall == mgr = "manager" /\ ret.src = "ok"

----------------------------------------------------------------------------
(* Properties *)

\* C1: a resource manager that holds a MIG device never gets a daemon from
\* Daemons().  The code breaks it: the continue of the MIG check leaves the
\* device loop running and the daemon is built all the same.
C1_MigGroupGetsNoDaemon ==
    \A k \in 1..Len(ret.daemons) : ~HasMig(resourceManagers[ret.daemons[k].rm])

\* C2: under any strategy but MPS, New returns the null manager, and the null
\* manager (also through NewDaemons) returns no daemons and no error and never
\* asks for the resource managers, whatever they hold and whether or not asking
\* for them would fail.
C2_NullManager ==
    /\ [][(mgr = "none" /\ mgr' # "none" /\ strategy # SharingStrategyMPS)
             => mgr' = "nullManager"]_vars
    /\ [](mgr = "nullManager" /\ ret.src # "nocall" => Returned(ret) = Nil)
    /\ [](out.src # "nocall" /\ out.strategy # SharingStrategyMPS => Returned(out) = Nil)

C2_Witness ==
    /\ mgr = "nullManager"
    /\ ret.src = "unread"
    /\ out.src = "unread"
    /\ \E i \in GroupIndex : HasInvalidShared(resourceManagers[i])

\* C3: once any resource manager holds a sharing-annotated, non-MIG device of
\* invalid replicas, a call of the real manager returns an error and the nil
\* list; and no call returns daemons together with an error.
C3_AllOrNothing ==
    mgr = "manager" /\ ret.src # "nocall" =>
        /\ (\E i \in GroupIndex : HasInvalidShared(resourceManagers[i]))
              => ret.err # NilError /\ ret.daemons = <<>>
        /\ ret.err # NilError => ret.daemons = <<>>

C3_Witness ==
    /\ RealCall
    /\ Len(resourceManagers) = 2
    /\ Qualifies(resourceManagers[1])
    /\ HasInvalidShared(resourceManagers[2])
    /\ ret.err = InvalidMPSConfiguration

\* C4 as stated: an error of Daemons() or NewDaemons() means that some device of
\* some resource manager failed the replica check.
C4_OnlyReplicaErrors ==
    \A r \in {Returned(ret), Returned(out)} :
        r.err # NilError =>
            \E i \in GroupIndex : \E j \in 1..Len(resourceManagers[i]) :
                Invalid(resourceManagers[i][j])

\* C4 amended: an error of Daemons() or NewDaemons() means that either the
\* resource managers could not be constructed, or a non-MIG device of a
\* non-empty, sharing-annotated resource manager failed the replica check; New
\* itself never fails.
C4_SourceOrReplicaErrors ==
    \A r \in {Returned(ret), Returned(out)} :
        r.err # NilError =>
            \/ r.src = "failed" /\ r.err = SourceError
            \/ /\ r.src = "ok"
               /\ r.err = InvalidMPSConfiguration
               /\ \E i \in GroupIndex :
                     /\ Len(resourceManagers[i]) > 0
                     /\ AnyHasAnnotations(resourceManagers[i])
                     /\ HasInvalid(resourceManagers[i])

C4_Witness ==
    /\ ret.err = InvalidMPSConfiguration
    /\ out.err = SourceError
    /\ \E i \in GroupIndex : Len(resourceManagers[i]) = 0

\* C5: resource managers that are empty, unshared or hold a MIG device never
\* make Daemons() fail, whatever replicas their devices declare.  The code
\* breaks it for the ones that hold a MIG device, which are validated like the
\* others (see C1).
C5_ExcludedGroupsNeverFail ==
    (RealCall /\ \A i \in GroupIndex : Excluded(resourceManagers[i]))
        => ret.err = NilError

\* C6: every daemon Daemons() returns is for a resource manager that has a
\* device and has a sharing-annotated device.
C6_DaemonsOfSharedGroups ==
    \A k \in 1..Len(ret.daemons) :
        /\ ret.daemons[k].rm \in GroupIndex
        /\ Len(Devices(resourceManagers[ret.daemons[k].rm])) > 0
        /\ AnyHasAnnotations(Devices(resourceManagers[ret.daemons[k].rm]))

C6_Witness ==
    /\ RealCall
    /\ Len(ret.daemons) = 1
    /\ \E i \in GroupIndex :
          /\ Len(resourceManagers[i]) > 0
          /\ ~AnyHasAnnotations(resourceManagers[i])

\* C7: the daemons come in the order of their resource managers, at most one
\* per resource manager, so never more daemons than resource managers.
C7_OrderedSubsequence ==
    /\ \A k \in 1..Len(ret.daemons) : ret.daemons[k].rm \in GroupIndex
    /\ \A k, l \in 1..Len(ret.daemons) :
          k < l => ret.daemons[k].rm < ret.daemons[l].rm
    /\ Len(ret.daemons) <= Len(resourceManagers)

C7_Witness == RealCall /\ Len(ret.daemons) = 2

\* C8: when the real manager got the resource managers and none of them fails
\* the replica check, every resource manager that has devices, a sharing
\* annotation, no MIG device and only valid replicas has exactly one daemon,
\* and every daemon has the root ContainerRoot.
C8_OneDaemonPerQualifyingGroup ==
    (RealCall /\ \A i \in GroupIndex :
                    (Len(resourceManagers[i]) > 0 /\ AnyHasAnnotations(resourceManagers[i]))
                        => ~HasInvalid(resourceManagers[i]))
        => /\ ret.err = NilError
           /\ \A i \in GroupIndex :
                 Qualifies(resourceManagers[i])
                    => Cardinality(DaemonsOf(ret.daemons, i)) = 1
           /\ \A k \in 1..Len(ret.daemons) : ret.daemons[k].root = ContainerRoot

C8_Witness ==
    /\ RealCall
    /\ \E i, j \in GroupIndex :
          /\ Qualifies(resourceManagers[i])
          /\ ~Qualifies(resourceManagers[j])
          /\ DaemonsOf(ret.daemons, i) # {}

C10_ChoiceIsFixed ==
    /\ [][mgr # "none" => mgr' = mgr]_vars
    /\ [](mgr = "nullManager" /\ ret.strategy = SharingStrategyMPS
             => ret.src = "unread" /\ ret.daemons = <<>> /\ ret.err = NilError)
    /\ [](mgr = "manager" /\ ret.src # "nocall" /\ ret.strategy # SharingStrategyMPS
             => /\ ret.src \in {"ok", "failed"}
                /\ (ret.src = "ok" /\ \E i \in GroupIndex : Qualifies(resourceManagers[i]))
                      => (ret.daemons # <<>> \/ ret.err # NilError))

C10_Witness ==
    /\ mgr = "manager"
    /\ ret.strategy = SharingStrategyTimeSlicing
    /\ strategy = SharingStrategyNone
    /\ ret.daemons # <<>>

====
